---- MODULE Spec2Model ----
(***************************************************************************)
(* A model of the MCP client (src/src/mcp_client.py) and of the Bedrock    *)
(* helper functions (src/src/utils/helpers.py).                            *)
(*                                                                         *)
(* Strings the code inspects character by character (the script path, the  *)
(* input line, the model id) are sequences of one-character strings, so    *)
(* that endswith, strip, lower and the substring test are computed as      *)
(* Python computes them.                                                   *)
(***************************************************************************)
EXTENDS Integers, Sequences, FiniteSets, TLC

VARIABLES
    pc,            \* position of the main coroutine
    argv,          \* sys.argv
    constructed,   \* MCPClient() has returned
    accessLog,     \* model ids for which __init__ sent an invocation request
    server_params, \* StdioServerParameters built by connect_to_server, or NoParams
    spawned,       \* the child process started by stdio_client, or NoParams
    exit_stack,    \* self.exit_stack: the registered contexts, oldest first
    acquired,      \* every context ever entered, in order
    releaseLog,    \* every context exit (__aexit__) ever run, in order
    session,       \* self.session is set
    sessionLog,    \* requests sent on the session, in order
    line,          \* what input() returned last
    nReads,        \* completed calls of input()
    nQueries,      \* calls of process_query
    printed,       \* what was printed: "usage", "banner", "answer", "error"
    raised,        \* what the last step raised: "none", "Exception", "BaseException"
    exc,           \* the exception main's try block was left with
    cleanupCalls,  \* calls of cleanup()
    cleanupRaised, \* the last cleanup() raised
    ended,         \* how main ended: "running", "exit1", "returned", "raised"
    inFlight,      \* calls of process_query that have neither returned nor raised
    catalog,       \* the tool catalog the server last answered list_tools with
    promptTools,   \* process_query: the tools of the prompt's summary (line 83)
    tools,         \* process_query: the tools bound to the agent and executor (line 90)
    h_op,          \* helpers.py: the function called
    h_model_id,    \* helpers.py: model_id of validate_inference_parameters
    h_params,      \* helpers.py: the keys of inference_parameters, in dict order
    h_ids,         \* helpers.py: model_ids of validate_models_access
    h_i,           \* helpers.py: how many of h_ids the comprehension has consumed
    h_requests,    \* helpers.py: invoke_model requests sent, in order
    h_inaccessible,\* helpers.py: the list the comprehension has built
    h_result       \* helpers.py: the outcome of the call

mainVars == <<pc, argv, constructed, accessLog, server_params, spawned, exit_stack,
              acquired, releaseLog, session, sessionLog, line, nReads, nQueries,
              printed, raised, exc, cleanupCalls, cleanupRaised, ended, inFlight,
              catalog, promptTools, tools>>
queryVars == <<inFlight, catalog, promptTools, tools>>
helperVars == <<h_op, h_model_id, h_params, h_ids, h_i, h_requests, h_inaccessible,
                h_result>>
vars == <<mainVars, helperVars>>

-----------------------------------------------------------------------------
(* Bounds *)

\* input() calls modelled in one run of chat_loop
MaxLines == 3
\* spaces on each side of an input line
MaxPad == 1
\* cleanup() calls a caller makes after main's own
MaxExtraCleanups == 2
\* pieces a model id given to validate_inference_parameters is made of
MaxIdParts == 2
\* keys of the inference_parameters mapping
MaxKeys == 2
\* identifiers in the list given to validate_models_access
MaxIds == 3

-----------------------------------------------------------------------------
(* Python's str operations *)

Upper == <<"A","B","C","D","E","F","G","H","I","J","K","L","M",
           "N","O","P","Q","R","S","T","U","V","W","X","Y","Z">>
Lower == <<"a","b","c","d","e","f","g","h","i","j","k","l","m",
           "n","o","p","q","r","s","t","u","v","w","x","y","z">>

Whitespace == {" ", "\t"}

LowerChar(c) ==
    IF \E i \in 1..Len(Upper) : Upper[i] = c
    THEN Lower[CHOOSE i \in 1..Len(Upper) : Upper[i] = c]
    ELSE c

\* str.lower()
StrLower(s) == [i \in 1..Len(s) |-> LowerChar(s[i])]

\* str.strip(): drops the leading and the trailing whitespace
StrStrip(s) ==
    LET keep == {i \in 1..Len(s) : s[i] \notin Whitespace}
    IN  IF keep = {} THEN <<>>
        ELSE LET lo == CHOOSE i \in keep : \A j \in keep : i <= j
                 hi == CHOOSE i \in keep : \A j \in keep : j <= i
             IN  SubSeq(s, lo, hi)

\* str.endswith(suffix)
EndsWith(s, suffix) ==
    /\ Len(s) >= Len(suffix)
    /\ SubSeq(s, Len(s) - Len(suffix) + 1, Len(s)) = suffix

\* sub in s
Contains(s, sub) ==
    \E i \in 1..(Len(s) - Len(sub) + 1) : SubSeq(s, i, i + Len(sub) - 1) = sub

Reverse(s) == [i \in 1..Len(s) |-> s[Len(s) + 1 - i]]

Count(s, x) == Cardinality({i \in 1..Len(s) : s[i] = x})

-----------------------------------------------------------------------------
(* helpers.py: the inference-parameter tables and the two validators *)

Titan == <<"t","i","t","a","n">>
Ai21 == <<"a","i","2","1">>
Claude == <<"c","l","a","u","d","e">>
Command == <<"c","o","m","m","a","n","d">>
Stability == <<"s","t","a","b","i","l","i","t","y">>
Mixtral == <<"m","i","x","t","r","a","l">>

\* the model id MCPClient.__init__ checks and uses
SonnetId == <<"a","n","t","h","r","o","p","i","c",".","c","l","a","u","d","e","-","3","-","s","o","n","n","e","t","-","2","0","2","4","0","2","2","9","-","v","1",":","0">>

titan_models_inf_param == {"temperature", "topP", "maxTokenCount", "stopSequences"}

claude_models_inf_param ==
    {"temperature", "topP", "topK", "max_tokens_to_sample", "stop_sequences"}

jurassic_models_inf_param ==
    {"temperature", "topP", "maxTokens", "stopSequences", "presencePenalty",
     "countPenalty", "frequencyPenalty", "applyToWhitespaces", "applyToPunctuation",
     "applyToNumbers", "applyToStopwords", "applyToEmojis"}

command_models_inf_param ==
    {"temperature", "p", "k", "return_likelihoods", "stream", "max_tokens",
     "stop_sequences", "num_generations"}

stability_models_inf_param == {"cfg_scale", "steps"}

mixtral_models_inf_param == {"max_tokens", "stop", "temperature", "top_p", "top_k"}

\* the if/elif chain of validate_inference_parameters: the family whose table is
\* selected, "none" for its else branch
ParamFamily(model_id) ==
    IF Contains(model_id, Titan) THEN "titan"
    ELSE IF Contains(model_id, Ai21) THEN "ai21"
    ELSE IF Contains(model_id, Claude) THEN "claude"
    ELSE IF Contains(model_id, Command) THEN "command"
    ELSE IF Contains(model_id, Stability) THEN "stability"
    ELSE IF Contains(model_id, Mixtral) THEN "mixtral"
    ELSE "none"

\* the table each branch assigns to `selection`
Selection(family) ==
    CASE family = "titan" -> titan_models_inf_param
      [] family = "ai21" -> jurassic_models_inf_param
      [] family = "claude" -> claude_models_inf_param
      [] family = "command" -> command_models_inf_param
      [] family = "stability" -> stability_models_inf_param
      [] family = "mixtral" -> mixtral_models_inf_param

\* mutant: only the first key is looked at
CheckKeysFirstOnly(model_id, keys, selection, i) ==
    IF Len(keys) >= 1 /\ keys[1] \notin selection
    THEN [kind |-> "InvalidParameter", key |-> keys[1], model_id |-> model_id]
    ELSE [kind |-> "True", key |-> "", model_id |-> <<>>]

RECURSIVE CheckKeys(_, _, _, _)
\* the for loop over the keys: raises at the first key that is not in the selection
CheckKeys(model_id, keys, selection, i) ==
    IF i > Len(keys) THEN [kind |-> "True", key |-> "", model_id |-> <<>>]
    ELSE IF keys[i] \notin selection
         THEN [kind |-> "InvalidParameter", key |-> keys[i], model_id |-> model_id]
         ELSE CheckKeys(model_id, keys, selection, i + 1)

\* validate_inference_parameters(model_id, inference_parameters): True, or the
\* ValueError it raises with the key and the model id its message holds
validate_inference_parameters(model_id, keys) ==
    IF ParamFamily(model_id) = "none"
    THEN [kind |-> "UnsupportedModel", key |-> "", model_id |-> <<>>]
    ELSE CheckKeys(model_id, keys, Selection(ParamFamily(model_id)), 1)

\* the if/elif chain of validate_model_access: the request body's family
RequestFamily(model_id) ==
    IF Contains(model_id, Titan) THEN "titan"
    ELSE IF Contains(model_id, Mixtral) THEN "mixtral"
    ELSE IF Contains(model_id, Claude) THEN "claude"
    ELSE IF Contains(model_id, Command) THEN "command"
    ELSE IF Contains(model_id, Stability) THEN "stability"
    ELSE "none"

\* what invoke_model can answer: success, a ClientError with the given code, or an
\* exception that is no ClientError
ProviderAnswers == {"ok", "AccessDeniedException", "ThrottlingException", "ConnectionError"}

\* mutant: every ClientError is taken for a denial
ClassifyAnyClientError(answer) ==
    IF answer = "ok" THEN "True"
    ELSE IF answer \in {"AccessDeniedException", "ThrottlingException"} THEN "False"
    ELSE "ProviderError"

\* the except clause of validate_model_access: a ClientError whose code is
\* AccessDeniedException gives False, every other exception is raised on
Classify(answer) ==
    IF answer = "ok" THEN "True"
    ELSE IF answer = "AccessDeniedException" THEN "False"
    ELSE "ProviderError"

\* validate_model_access(bedrock_runtime, model_id) when invoke_model answers
\* `answer`: whether a request was sent, and True, False or the exception raised
validate_model_access(model_id, answer) ==
    IF RequestFamily(model_id) = "none"
    THEN [sent |-> FALSE, outcome |-> "ValueError"]
    ELSE [sent |-> TRUE, outcome |-> Classify(answer)]

-----------------------------------------------------------------------------
(* mcp_client.py: inputs *)

DotPy == <<".","p","y">>
DotJs == <<".","j","s">>

Stems == { <<>>, <<"s">>, <<"a",".","p","y">> }
Extensions == { <<>>, DotPy, DotJs, <<".","P","Y">>, <<".","p","y","c">>,
                <<"p","y">>, <<".","j","s","x">> }

\* script paths given on the command line
Paths == { st \o ex : st \in Stems, ex \in Extensions }

Prog == <<"c">>

\* the case variants of the sentinel: quit, Quit, qUit, ..., QUIT
QuitWords == { <<a, b, c, d>> : a \in {"q","Q"}, b \in {"u","U"}, c \in {"i","I"},
                                d \in {"t","T"} }
OtherWords == { <<>>, <<"h","i">>, <<"q","u","i","t","s">>, <<"q","u"," ","i","t">>,
                <<"q","u","i">>, <<"e","x","i","t">> }

Pads == { [i \in 1..n |-> " "] : n \in 0..MaxPad }
TabLines == { <<"\t","q","u","i","t">>, <<"Q","U","I","T","\t"," ">>,
              <<"q","\t","u","i","t">> }

\* lines input() can return
Lines == { l \o w \o r : l \in Pads, w \in QuitWords \cup OtherWords, r \in Pads }
             \cup TabLines

NoLine == <<"<", ">">>

\* tool catalogs of the server: the names of its tools, in its order
InitialCatalog == <<"echo">>
Catalogs == { InitialCatalog, <<"echo", "add">> }
NoTools == <<"<none>">>
NoParams == [command |-> "none", args |-> <<>>]

-----------------------------------------------------------------------------
(* mcp_client.py: the pieces of the code the actions are built from *)

\* line 62: the suffix test of connect_to_server
is_python(path) == EndsWith(path, DotPy)
is_js(path) == EndsWith(path, DotJs)

\* mutant: the interpreters are exchanged
ServerParamsSwapped(path) ==
    [command |-> IF is_python(path) THEN "node" ELSE "python", args |-> <<path>>]

\* mutant: the handshake is left out
AfterStepNoHandshake(step) ==
    CASE step = "spawn" -> "session"
      [] step = "session" -> "list_tools"
      [] step = "initialize" -> "list_tools"
      [] step = "list_tools" -> "chat_read"

\* connect_to_server, lines 72-79, and main, line 126: the statement that follows
\* each awaited step when it succeeds
AfterStep(step) ==
    CASE step = "spawn" -> "session"
      [] step = "session" -> "initialize"
      [] step = "initialize" -> "list_tools"
      [] step = "list_tools" -> "chat_read"

\* mutant: the test allows an argv that holds the program name alone
MissingArgumentOffByOne(args) == Len(args) < 1

\* main, line 119: the test for the missing script path
MissingArgument(args) == Len(args) < 2

\* lines 65-70: the StdioServerParameters
ServerParams(path) ==
    [command |-> IF is_python(path) THEN "python" ELSE "node", args |-> <<path>>]

\* mutant: the line is compared without lower-casing it
IsQuitCaseSensitive(l) == StrStrip(l) = <<"q","u","i","t">>

\* lines 103-105: the quit test on the line input() returned
IsQuit(l) == StrLower(StrStrip(l)) = <<"q","u","i","t">>

\* mutant: the handler is a bare `except:` and catches every interruption
ChatCatchesAll(kind) == TRUE

\* mutant: the loop has no except clause
ChatCatchesNothing(kind) == FALSE

\* line 111: what chat_loop's except clause catches
ChatCatches(kind) == kind = "Exception"

\* mutant: the contexts are exited oldest first
ExitsRunOldestFirst(stack, raisers) == stack

\* mutant: the first exit that raises ends the unwinding
ExitsRunUntilRaise(stack, raisers) ==
    LET rev == Reverse(stack)
        bad == {i \in 1..Len(rev) : rev[i] \in raisers}
    IN  IF bad = {} THEN rev
        ELSE SubSeq(rev, 1, CHOOSE i \in bad : \A j \in bad : i <= j)

\* AsyncExitStack.aclose(): every registered context is exited, newest first, also
\* when an exit raises (`raisers`); the exception is raised once all have run
ExitsRun(stack, raisers) == Reverse(stack)

\* mutant: the contexts stay registered after they are exited
StackKept(stack) == stack

\* AsyncExitStack.aclose() leaves no context registered
StackAfterClose(stack) == <<>>

\* mutant: process_query is started and not awaited
AfterCallNotAwaited == "chat_read"

\* chat_loop, line 108: `await self.process_query(query)` runs process_query to its
\* end before the loop's next statement
AfterCall == "pq_tools1"

\* mutant: the list of an earlier fetch is kept and used again
LoadToolsCached(last, answer) == IF last # NoTools THEN last ELSE answer

\* load_mcp_tools(self.session): the tools of the catalog the server answers with;
\* `last` is the catalog of the fetch before, which it does not use
load_mcp_tools(last, answer) == answer

\* what a failing await or call raises
Kinds == {"Exception", "BaseException"}

-----------------------------------------------------------------------------
(* mcp_client.py: main, connect_to_server, chat_loop, process_query, cleanup *)

HelpersIdle ==
    /\ h_op = "none"
    /\ h_model_id = <<>>
    /\ h_params = <<>>
    /\ h_ids = <<>>
    /\ h_i = 0
    /\ h_requests = <<>>
    /\ h_inaccessible = <<>>
    /\ h_result = [kind |-> "none"]

MainIdle ==
    /\ constructed = FALSE
    /\ accessLog = <<>>
    /\ server_params = NoParams
    /\ spawned = NoParams
    /\ exit_stack = <<>>
    /\ acquired = <<>>
    /\ releaseLog = <<>>
    /\ session = FALSE
    /\ sessionLog = <<>>
    /\ line = NoLine
    /\ nReads = 0
    /\ nQueries = 0
    /\ printed = <<>>
    /\ raised = "none"
    /\ exc = "none"
    /\ cleanupCalls = 0
    /\ cleanupRaised = FALSE
    /\ ended = "running"
    /\ inFlight = 0
    /\ catalog = NoTools
    /\ promptTools = NoTools
    /\ tools = NoTools

\* python client.py [<path_to_server_script>]
Init ==
    /\ pc = "main"
    /\ argv \in {<<Prog>>} \cup { <<Prog, p>> : p \in Paths }
    /\ MainIdle
    /\ HelpersIdle

\* main, lines 119-121: the usage message and sys.exit(1)
Main ==
    /\ pc = "main"
    /\ IF MissingArgument(argv)
       THEN /\ printed' = Append(printed, "usage")
            /\ ended' = "exit1"
            /\ pc' = "done"
       ELSE /\ pc' = "construct"
            /\ UNCHANGED <<printed, ended>>
    /\ raised' = "none"
    /\ UNCHANGED <<argv, constructed, accessLog, server_params, spawned, exit_stack,
                   acquired, releaseLog, session, sessionLog, line, nReads, nQueries,
                   exc, cleanupCalls, cleanupRaised, queryVars, helperVars>>

\* main, line 123, and MCPClient.__init__: the access check of the model (its result
\* is dropped) and the construction of the exit stack and of the model client. An
\* exception here is raised before main's try statement is entered.
Construct ==
    /\ pc = "construct"
    /\ \E client_ok \in BOOLEAN, answer \in ProviderAnswers, llm_ok \in BOOLEAN :
         LET r == validate_model_access(SonnetId, answer)
             ok == client_ok /\ r.outcome \in {"True", "False"} /\ llm_ok
         IN  /\ accessLog' = IF client_ok /\ r.sent
                             THEN Append(accessLog, SonnetId) ELSE accessLog
             /\ constructed' = ok
             /\ pc' = IF ok THEN "connect" ELSE "done"
             /\ ended' = IF ok THEN ended ELSE "raised"
             /\ raised' = IF ok THEN "none" ELSE "Exception"
    /\ UNCHANGED <<argv, server_params, spawned, exit_stack, acquired, releaseLog,
                   session, sessionLog, line, nReads, nQueries, printed, exc,
                   cleanupCalls, cleanupRaised, queryVars, helperVars>>

\* mutant: main goes on to chat_loop after a failed connect
ConnectRaiseSwallowed(kind) ==
    /\ raised' = kind
    /\ exc' = exc
    /\ pc' = "chat_read"

\* an exception leaves connect_to_server and main's try block: on to the finally clause
ConnectRaise(kind) ==
    /\ raised' = kind
    /\ exc' = kind
    /\ pc' = "finally"

\* connect_to_server, lines 60-70
ConnectCheck ==
    /\ pc = "connect"
    /\ IF ~(is_python(argv[2]) \/ is_js(argv[2]))
       THEN /\ ConnectRaise("Exception")
            /\ UNCHANGED server_params
       ELSE /\ server_params' = ServerParams(argv[2])
            /\ pc' = "spawn"
            /\ raised' = "none"
            /\ UNCHANGED exc
    /\ UNCHANGED <<argv, constructed, accessLog, spawned, exit_stack, acquired,
                   releaseLog, session, sessionLog, line, nReads, nQueries, printed,
                   cleanupCalls, cleanupRaised, ended, queryVars, helperVars>>

\* connect_to_server, lines 72-73: stdio_client spawns the child and the exit stack
\* registers it; a failing __aenter__ registers nothing
ConnectSpawn ==
    /\ pc = "spawn"
    /\ \E result \in {"ok"} \cup Kinds :
         IF result = "ok"
         THEN /\ spawned' = server_params
              /\ exit_stack' = Append(exit_stack, "transport")
              /\ acquired' = Append(acquired, "transport")
              /\ pc' = AfterStep("spawn")
              /\ raised' = "none"
              /\ UNCHANGED exc
         ELSE /\ ConnectRaise(result)
              /\ UNCHANGED <<spawned, exit_stack, acquired>>
    /\ UNCHANGED <<argv, constructed, accessLog, server_params, releaseLog, session,
                   sessionLog, line, nReads, nQueries, printed, cleanupCalls,
                   cleanupRaised, ended, queryVars, helperVars>>

\* connect_to_server, line 74: the ClientSession is entered and registered
ConnectSession ==
    /\ pc = "session"
    /\ \E result \in {"ok"} \cup Kinds :
         IF result = "ok"
         THEN /\ session' = TRUE
              /\ exit_stack' = Append(exit_stack, "session")
              /\ acquired' = Append(acquired, "session")
              /\ pc' = AfterStep("session")
              /\ raised' = "none"
              /\ UNCHANGED exc
         ELSE /\ ConnectRaise(result)
              /\ UNCHANGED <<session, exit_stack, acquired>>
    /\ UNCHANGED <<argv, constructed, accessLog, server_params, spawned, releaseLog,
                   sessionLog, line, nReads, nQueries, printed, cleanupCalls,
                   cleanupRaised, ended, queryVars, helperVars>>

\* connect_to_server, line 75: the handshake
ConnectInitialize ==
    /\ pc = "initialize"
    /\ \E result \in {"ok"} \cup Kinds :
         /\ sessionLog' = Append(sessionLog, [op |-> "initialize", ok |-> result = "ok"])
         /\ IF result = "ok"
            THEN /\ pc' = AfterStep("initialize")
                 /\ raised' = "none"
                 /\ UNCHANGED exc
            ELSE ConnectRaise(result)
    /\ UNCHANGED <<argv, constructed, accessLog, server_params, spawned, exit_stack,
                   acquired, releaseLog, session, line, nReads, nQueries, printed,
                   cleanupCalls, cleanupRaised, ended, queryVars, helperVars>>

\* connect_to_server, lines 77-79: the first list_tools and the banner; then main
\* calls chat_loop
ConnectListTools ==
    /\ pc = "list_tools"
    /\ \E result \in {"ok"} \cup Kinds :
         /\ sessionLog' = Append(sessionLog, [op |-> "list_tools", ok |-> result = "ok"])
         /\ IF result = "ok"
            THEN /\ printed' = Append(printed, "banner")
                 /\ catalog' = InitialCatalog
                 /\ pc' = AfterStep("list_tools")
                 /\ raised' = "none"
                 /\ UNCHANGED exc
            ELSE /\ ConnectRaise(result)
                 /\ UNCHANGED <<printed, catalog>>
    /\ UNCHANGED <<argv, constructed, accessLog, server_params, spawned, exit_stack,
                   acquired, releaseLog, session, line, nReads, nQueries,
                   cleanupCalls, cleanupRaised, ended, inFlight, promptTools, tools,
                   helperVars>>

\* chat_loop, lines 102-112: an exception raised inside the try statement of one
\* iteration. One the except clause catches is reported and the loop goes on; any
\* other leaves chat_loop and main's try block.
ChatRaise(kind) ==
    /\ raised' = kind
    /\ line' = NoLine
    /\ inFlight' = 0
    /\ promptTools' = NoTools
    /\ tools' = NoTools
    /\ IF ChatCatches(kind)
       THEN /\ printed' = Append(printed, "error")
            /\ pc' = "chat_read"
            /\ UNCHANGED exc
       ELSE /\ exc' = kind
            /\ pc' = "finally"
            /\ UNCHANGED printed

\* chat_loop, lines 101-108: input(), the quit test and the call of process_query
ChatRead ==
    /\ pc = "chat_read"
    /\ nReads < MaxLines
    /\ nReads' = nReads + 1
    /\ \/ \E result \in Lines :
            /\ line' = result
            /\ raised' = "none"
            /\ pc' = IF IsQuit(result) THEN "finally" ELSE AfterCall
            /\ nQueries' = IF IsQuit(result) THEN nQueries ELSE nQueries + 1
            /\ inFlight' = IF IsQuit(result) THEN inFlight ELSE inFlight + 1
            /\ UNCHANGED <<printed, exc, promptTools, tools>>
       \/ \E kind \in Kinds :
            /\ ChatRaise(kind)
            /\ UNCHANGED nQueries
    /\ UNCHANGED <<argv, constructed, accessLog, server_params, spawned, exit_stack,
                   acquired, releaseLog, session, sessionLog, cleanupCalls,
                   cleanupRaised, ended, catalog, helperVars>>

\* process_query, lines 82-88: the catalog is loaded for the prompt's tool summary
PQLoadTools1 ==
    /\ pc = "pq_tools1"
    /\ \E result \in {"ok"} \cup Kinds :
         /\ sessionLog' = Append(sessionLog, [op |-> "list_tools", ok |-> result = "ok"])
         /\ IF result = "ok"
            THEN /\ \E answer \in Catalogs :
                      /\ catalog' = answer
                      /\ promptTools' = load_mcp_tools(catalog, answer)
                 /\ pc' = "pq_tools2"
                 /\ raised' = "none"
                 /\ UNCHANGED <<line, printed, exc, inFlight, tools>>
            ELSE /\ ChatRaise(result)
                 /\ UNCHANGED catalog
    /\ UNCHANGED <<argv, constructed, accessLog, server_params, spawned, exit_stack,
                   acquired, releaseLog, session, nReads, nQueries, cleanupCalls,
                   cleanupRaised, ended, helperVars>>

\* process_query, lines 90-92: the catalog is loaded again for the tool bindings
PQLoadTools2 ==
    /\ pc = "pq_tools2"
    /\ \E result \in {"ok"} \cup Kinds :
         /\ sessionLog' = Append(sessionLog, [op |-> "list_tools", ok |-> result = "ok"])
         /\ IF result = "ok"
            THEN /\ \E answer \in Catalogs :
                      /\ catalog' = answer
                      /\ tools' = load_mcp_tools(catalog, answer)
                 /\ pc' = "pq_invoke"
                 /\ raised' = "none"
                 /\ UNCHANGED <<line, printed, exc, inFlight, promptTools>>
            ELSE /\ ChatRaise(result)
                 /\ UNCHANGED catalog
    /\ UNCHANGED <<argv, constructed, accessLog, server_params, spawned, exit_stack,
                   acquired, releaseLog, session, nReads, nQueries, cleanupCalls,
                   cleanupRaised, ended, helperVars>>

\* process_query, lines 93-94, and chat_loop, line 109: the executor's run, whose
\* outcome is the library's: an output holding a text block ("text"), an output of
\* another shape, on which line 94 raises ("malformed"), or an exception. The
\* tool calls of the run, of which there may be none, are the one entry
\* "agent_run" of the session log.
PQInvoke ==
    /\ pc = "pq_invoke"
    /\ sessionLog' = Append(sessionLog, [op |-> "agent_run", ok |-> TRUE])
    /\ \E result \in {"text", "malformed"} \cup Kinds :
         IF result = "text"
         THEN /\ printed' = Append(printed, "answer")
              /\ pc' = "chat_read"
              /\ raised' = "none"
              /\ line' = NoLine
              /\ inFlight' = 0
              /\ promptTools' = NoTools
              /\ tools' = NoTools
              /\ UNCHANGED exc
         ELSE ChatRaise(IF result = "malformed" THEN "Exception" ELSE result)
    /\ UNCHANGED <<argv, constructed, accessLog, server_params, spawned, exit_stack,
                   acquired, releaseLog, session, nReads, nQueries,
                   cleanupCalls, cleanupRaised, ended, catalog, helperVars>>

\* cleanup, lines 114-116: self.exit_stack.aclose()
Aclose(raisers) ==
    /\ releaseLog' = releaseLog \o ExitsRun(exit_stack, raisers)
    /\ exit_stack' = StackAfterClose(exit_stack)
    /\ cleanupCalls' = cleanupCalls + 1
    /\ cleanupRaised' = (raisers # {})

\* main, lines 127-128: the finally clause, reached when the try block returns and
\* when it raises; main then returns or raises
Cleanup ==
    /\ pc = "finally"
    /\ \E raisers \in SUBSET {exit_stack[i] : i \in 1..Len(exit_stack)} :
         /\ Aclose(raisers)
         /\ ended' = IF raisers # {} \/ exc # "none" THEN "raised" ELSE "returned"
         /\ raised' = IF raisers # {} THEN "Exception" ELSE "none"
    /\ pc' = "done"
    /\ UNCHANGED <<argv, constructed, accessLog, server_params, spawned, acquired,
                   session, sessionLog, line, nReads, nQueries, printed, exc,
                   queryVars, helperVars>>

\* a further call of cleanup() on the client after main's
CleanupAgain ==
    /\ pc = "done"
    /\ constructed
    /\ cleanupCalls >= 1
    /\ cleanupCalls < 1 + MaxExtraCleanups
    /\ \E raisers \in SUBSET {exit_stack[i] : i \in 1..Len(exit_stack)} :
         /\ Aclose(raisers)
         /\ raised' = IF raisers # {} THEN "Exception" ELSE "none"
    /\ UNCHANGED <<pc, argv, constructed, accessLog, server_params, spawned, acquired,
                   session, sessionLog, line, nReads, nQueries, printed, exc, ended,
                   queryVars, helperVars>>

Next ==
    \/ Main
    \/ Construct
    \/ ConnectCheck
    \/ ConnectSpawn
    \/ ConnectSession
    \/ ConnectInitialize
    \/ ConnectListTools
    \/ ChatRead
    \/ PQLoadTools1
    \/ PQLoadTools2
    \/ PQInvoke
    \/ Cleanup

Spec == Init /\ [][Next]_vars

\* the program, and a caller that calls cleanup() again once main has ended
NextCleanupAgain == Next \/ CleanupAgain

SpecCleanupAgain == Init /\ [][NextCleanupAgain]_vars

-----------------------------------------------------------------------------
(* Claims on mcp_client.py *)

Resources == {"transport", "session"}

\* C1: when process_query raises an Exception for a line that is not the quit
\* sentinel, chat_loop catches it in that iteration: exactly one error report is
\* printed and no answer, nothing is cleaned up, main goes on running, and the
\* loop is back at reading the next input line.
C1_QueryExceptionCaught ==
    [][ (pc \in {"pq_tools1", "pq_tools2", "pq_invoke"} /\ raised' = "Exception")
        => /\ pc' = "chat_read"
           /\ printed' = Append(printed, "error")
           /\ exc' = "none"
           /\ ended' = "running"
           /\ cleanupCalls' = 0
           /\ exit_stack' = exit_stack ]_vars

\* the first query failed with one error report and a second line is being processed
C1_Witness ==
    /\ pc = "pq_tools1"
    /\ nReads = 2
    /\ nQueries = 2
    /\ printed = <<"banner", "error">>

\* C2: once main has ended after the controller was constructed, cleanup has been
\* called, no context is registered any more, and every context that was entered
\* (none, the transport, or the transport and the session) was entered once and
\* exited exactly once.
C2_CleanupReleasesAll ==
    (constructed /\ ended \in {"returned", "raised"})
    => /\ cleanupCalls = 1
       /\ exit_stack = <<>>
       /\ \A r \in Resources :
            /\ Count(acquired, r) <= 1
            /\ Count(releaseLog, r) = Count(acquired, r)

\* connect_to_server failed with the transport entered and the session not
C2_Witness ==
    /\ constructed
    /\ ended = "raised"
    /\ exc = "Exception"
    /\ acquired = <<"transport">>
    /\ releaseLog = <<"transport">>

\* a line made of whitespace, one case variant of quit, whitespace
IsSentinel(l) ==
    \E i \in 1..(Len(l) - 3) :
        /\ SubSeq(l, i, i + 3) \in QuitWords
        /\ \A j \in 1..Len(l) : (j < i \/ j > i + 3) => l[j] \in Whitespace

\* C3: a line that is the quit sentinel up to surrounding whitespace and case ends
\* the loop without a call of process_query; when it is the first line, main ends
\* with no query processed and, after its cleanup, everything entered is exited.
C3_QuitEndsLoop ==
    /\ [][ (pc = "chat_read" /\ line' # line /\ IsSentinel(line'))
           => (pc' = "finally" /\ nQueries' = nQueries /\ exc' = "none") ]_vars
    /\ [] ( (ended # "running" /\ nReads = 1 /\ IsSentinel(line))
            => /\ nQueries = 0
               /\ cleanupCalls = 1
               /\ exit_stack = <<>>
               /\ releaseLog = Reverse(acquired)
               /\ Len(acquired) = 2 )

\* " Quit " was the first line and main has returned
C3_Witness ==
    /\ ended = "returned"
    /\ nReads = 1
    /\ line = <<" ", "Q", "u", "i", "t", " ">>
    /\ nQueries = 0
    /\ releaseLog = <<"session", "transport">>

\* C4: a call of cleanup that follows another one changes nothing: it exits no
\* context again, registers none, and raises no error.
C4_CleanupIdempotent ==
    [][ (cleanupCalls >= 1 /\ cleanupCalls' = cleanupCalls + 1)
        => /\ releaseLog' = releaseLog
           /\ exit_stack' = exit_stack
           /\ ~cleanupRaised'
           /\ raised' = "none"
           /\ UNCHANGED <<pc, acquired, session, spawned, printed, ended, exc>> ]_vars

\* cleanup was called twice on a client that held the transport and the session,
\* and the first call raised
C4_Witness ==
    /\ cleanupCalls = 2
    /\ acquired = <<"transport", "session">>
    /\ releaseLog = <<"session", "transport">>
    /\ ended = "raised"
    /\ exc = "none"

HasSuffix3(p, a, b, c) ==
    /\ Len(p) >= 3
    /\ p[Len(p) - 2] = a
    /\ p[Len(p) - 1] = b
    /\ p[Len(p)] = c

\* C5: the server parameters, and the child spawned from them, name python for a
\* path ending in .py and node for one ending in .js, with the path as the only
\* argument; for any other path connect_to_server raises with no parameters built,
\* no child spawned and nothing registered on the exit stack.
C5_InterpreterBySuffix ==
    Len(argv) = 2 =>
        LET path == argv[2]
            py == HasSuffix3(path, ".", "p", "y")
            js == HasSuffix3(path, ".", "j", "s")
        IN  /\ server_params # NoParams
               => /\ py \/ js
                  /\ server_params.command = (IF py THEN "python" ELSE "node")
                  /\ server_params.args = <<path>>
            /\ spawned # NoParams => spawned = server_params
            /\ ~(py \/ js)
               => /\ server_params = NoParams
                  /\ spawned = NoParams
                  /\ acquired = <<>>
                  /\ exit_stack = <<>>
                  /\ sessionLog = <<>>
                  /\ (constructed /\ pc # "connect")
                     => (exc = "Exception" /\ pc \in {"finally", "done"})

\* connect_to_server raised for the path s.pyc and main has ended
C5_Witness ==
    /\ Len(argv) = 2
    /\ argv[2] = <<"s", ".", "p", "y", "c">>
    /\ constructed
    /\ ended = "raised"
    /\ cleanupCalls = 1
    /\ spawned = NoParams

-----------------------------------------------------------------------------
(* helpers.py: calls of the two validators *)

IdParts == { Titan, Ai21, Claude, Command, Stability, Mixtral,
             <<"c","l","a","u">>, <<"d","e">>, <<"C","l","a","u","d","e">> }

RECURSIVE IdsOf(_)
IdsOf(n) ==
    IF n = 0 THEN {<<>>}
    ELSE LET shorter == IdsOf(n - 1)
         IN  shorter \cup { a \o b : a \in shorter, b \in IdParts }

\* model ids given to validate_inference_parameters
ModelIds == IdsOf(MaxIdParts) \cup {SonnetId}

KeyPool == {"temperature", "bogus", "topK", "max_tokens", "stopSequences", "steps"}

\* the keys of a dict, in its iteration order: no key twice
KeySeqs ==
    UNION { { ks \in [1..n -> KeyPool] : \A i, j \in 1..n : i # j => ks[i] # ks[j] }
            : n \in 0..MaxKeys }

\* model ids given to validate_models_access
AccessIds == { SonnetId, Titan, Ai21, Mixtral \o Claude, <<"g","p","t">> }

IdLists == UNION { [1..n -> AccessIds] : n \in 0..MaxIds }

InitParams ==
    /\ pc = "helper"
    /\ argv = <<Prog>>
    /\ MainIdle
    /\ h_op = "validate_inference_parameters"
    /\ h_model_id \in ModelIds
    /\ h_params \in KeySeqs
    /\ h_ids = <<>>
    /\ h_i = 0
    /\ h_requests = <<>>
    /\ h_inaccessible = <<>>
    /\ h_result = [kind |-> "none"]

\* a call validate_inference_parameters(model_id, inference_parameters)
ValidateInferenceParameters ==
    /\ h_op = "validate_inference_parameters"
    /\ h_result.kind = "none"
    /\ h_result' = validate_inference_parameters(h_model_id, h_params)
    /\ UNCHANGED <<mainVars, h_op, h_model_id, h_params, h_ids, h_i, h_requests,
                   h_inaccessible>>

NextParams == ValidateInferenceParameters

SpecParams == InitParams /\ [][NextParams]_vars

InitAccess ==
    /\ pc = "helper"
    /\ argv = <<Prog>>
    /\ MainIdle
    /\ h_op = "validate_models_access"
    /\ h_model_id = <<>>
    /\ h_params = <<>>
    /\ h_ids \in IdLists
    /\ h_i = 0
    /\ h_requests = <<>>
    /\ h_inaccessible = <<>>
    /\ h_result = [kind |-> "none"]

\* validate_models_access, line 170: the runtime client, whose construction may raise
AccessClient ==
    /\ h_op = "validate_models_access"
    /\ h_result.kind = "none"
    /\ \E ok \in BOOLEAN :
         h_result' = [kind |-> IF ok THEN "running" ELSE "ClientSetupError"]
    /\ UNCHANGED <<mainVars, h_op, h_model_id, h_params, h_ids, h_i, h_requests,
                   h_inaccessible>>

\* validate_models_access, line 172: one iteration of the comprehension, which calls
\* validate_model_access for the next identifier
AccessNext ==
    /\ h_op = "validate_models_access"
    /\ h_result.kind = "running"
    /\ h_i < Len(h_ids)
    /\ \E answer \in ProviderAnswers :
         LET model_id == h_ids[h_i + 1]
             r == validate_model_access(model_id, answer)
         IN  /\ h_i' = h_i + 1
             /\ h_requests' = IF r.sent
                              THEN Append(h_requests,
                                          [model_id |-> model_id, answer |-> answer])
                              ELSE h_requests
             /\ h_inaccessible' = IF r.outcome = "False"
                                  THEN Append(h_inaccessible, model_id)
                                  ELSE h_inaccessible
             /\ h_result' = IF r.outcome \in {"True", "False"}
                            THEN h_result
                            ELSE [kind |-> r.outcome]
    /\ UNCHANGED <<mainVars, h_op, h_model_id, h_params, h_ids>>

\* validate_models_access, line 172: the comprehension is exhausted and its list returned
AccessReturn ==
    /\ h_op = "validate_models_access"
    /\ h_result.kind = "running"
    /\ h_i = Len(h_ids)
    /\ h_result' = [kind |-> "returned"]
    /\ UNCHANGED <<mainVars, h_op, h_model_id, h_params, h_ids, h_i, h_requests,
                   h_inaccessible>>

NextAccess ==
    \/ AccessClient
    \/ AccessNext
    \/ AccessReturn

SpecAccess == InitAccess /\ [][NextAccess]_vars

-----------------------------------------------------------------------------
(* Claims on helpers.py *)

FamilyWords == { Titan, Ai21, Claude, Command, Stability, Mixtral }

FamilyOfWord(w) ==
    CASE w = Titan -> "titan"
      [] w = Ai21 -> "ai21"
      [] w = Claude -> "claude"
      [] w = Command -> "command"
      [] w = Stability -> "stability"
      [] w = Mixtral -> "mixtral"

\* C9: validate_inference_parameters fails with the unsupported-model error exactly
\* when no family substring occurs in the model id; otherwise there is a family
\* whose substring occurs in the id such that the call returns True exactly when
\* every key is in that family's allowed set, and else fails naming the first key
\* that is not, and the model id. {temperature, bogus} on the Claude id fails
\* naming bogus; {temperature} succeeds.
C9_ParamsValidated ==
    (h_op = "validate_inference_parameters" /\ h_result.kind # "none")
    => LET words == { w \in FamilyWords : Contains(h_model_id, w) }
       IN  /\ h_result.kind \in {"True", "InvalidParameter", "UnsupportedModel"}
           /\ (h_result.kind = "UnsupportedModel") <=> (words = {})
           /\ words # {}
              => \E w \in words :
                   LET allowed == Selection(FamilyOfWord(w))
                       bad == { i \in 1..Len(h_params) : h_params[i] \notin allowed }
                   IN  /\ (h_result.kind = "True") <=> (bad = {})
                       /\ bad # {}
                          => /\ h_result.key =
                                  h_params[CHOOSE i \in bad : \A j \in bad : i <= j]
                             /\ h_result.model_id = h_model_id
           /\ (h_model_id = SonnetId /\ h_params = <<"temperature", "bogus">>)
              => (h_result.kind = "InvalidParameter" /\ h_result.key = "bogus")
           /\ (h_model_id = SonnetId /\ h_params = <<"temperature">>)
              => h_result.kind = "True"

\* {temperature, bogus} on the Claude id has failed naming bogus
C9_Witness ==
    /\ h_op = "validate_inference_parameters"
    /\ h_model_id = SonnetId
    /\ h_params = <<"temperature", "bogus">>
    /\ h_result.kind = "InvalidParameter"
    /\ h_result.key = "bogus"
    /\ h_result.model_id = SonnetId

RequestIds == [i \in 1..Len(h_requests) |-> h_requests[i].model_id]

IsDenied(request) == request.answer = "AccessDeniedException"

DeniedIds ==
    LET denied == SelectSeq(h_requests, IsDenied)
    IN  [i \in 1..Len(denied) |-> denied[i].model_id]

HasRequestFamily(model_id) ==
    \E w \in { Titan, Mixtral, Claude, Command, Stability } : Contains(model_id, w)

-----------------------------------------------------------------------------
(* Further claims on mcp_client.py *)

\* C11: started without the script path, main prints the usage message and exits
\* with status 1 as its first step: the controller is never constructed, no
\* model-access request is sent and no child process is spawned.
C11_UsageExit ==
    Len(argv) < 2
    => /\ ~constructed
       /\ accessLog = <<>>
       /\ server_params = NoParams
       /\ spawned = NoParams
       /\ acquired = <<>>
       /\ cleanupCalls = 0
       /\ pc \in {"main", "done"}
       /\ pc = "done" => (ended = "exit1" /\ printed = <<"usage">>)

\* main was started with the program name alone and has exited
C11_Witness ==
    /\ argv = <<Prog>>
    /\ pc = "done"
    /\ ended = "exit1"
    /\ printed = <<"usage">>


\* C12: the transport is entered before the session, and whenever contexts are
\* exited the session is exited before the transport: the exits run in exactly
\* the reverse of the order of entry, on the normal path and on every failure path.
C12_ReverseRelease ==
    /\ acquired \in { <<>>, <<"transport">>, <<"transport", "session">> }
    /\ releaseLog \in { <<>>, Reverse(acquired) }
    /\ \A i, j \in 1..Len(releaseLog) :
         (releaseLog[i] = "session" /\ releaseLog[j] = "transport") => i < j
    /\ ended \in {"returned", "raised"} /\ constructed => releaseLog = Reverse(acquired)

\* an interruption during the first query left chat_loop, and cleanup exited the
\* session and then the transport
C12_Witness ==
    /\ ended = "raised"
    /\ exc = "BaseException"
    /\ nQueries = 1
    /\ acquired = <<"transport", "session">>
    /\ releaseLog = <<"session", "transport">>


\* C13: the handshake is the first request on the session and is sent once: any
\* list_tools request and any agent run comes after a handshake that succeeded,
\* and no later query sends the handshake again.
C13_HandshakeOnceFirst ==
    /\ Cardinality({ i \in 1..Len(sessionLog) : sessionLog[i].op = "initialize" }) <= 1
    /\ \A i \in 1..Len(sessionLog) :
         sessionLog[i].op # "initialize"
         => (i > 1 /\ sessionLog[1] = [op |-> "initialize", ok |-> TRUE])
    /\ sessionLog # <<>> => (session /\ acquired = <<"transport", "session">>)
    /\ nQueries > 0 => (sessionLog # <<>> /\ sessionLog[1].op = "initialize")

\* the second query is at the executor's run after a first query that ran fully
C13_Witness ==
    /\ pc = "pq_invoke"
    /\ nQueries = 2
    /\ Len(sessionLog) = 7
    /\ sessionLog[1] = [op |-> "initialize", ok |-> TRUE]
    /\ sessionLog[5].op = "agent_run"


ConnectSteps == {"connect", "spawn", "session", "initialize", "list_tools"}

ChatSteps == {"chat_read", "pq_tools1", "pq_tools2", "pq_invoke"}

\* C14: a step of connect_to_server that raises takes main straight to its finally
\* clause: chat_loop is not entered, no line is read and no query is processed;
\* and whenever chat_loop is running or a line was read or a query processed, the
\* session had been entered and the handshake and the startup list_tools had
\* both succeeded.
C14_ConnectFailureAborts ==
    /\ [][ (pc \in ConnectSteps /\ raised' # "none")
           => /\ pc' = "finally"
              /\ exc' = raised'
              /\ nReads' = 0
              /\ nQueries' = 0 ]_vars
    /\ [] ( (pc \in ChatSteps \/ nReads > 0 \/ nQueries > 0)
            => /\ spawned # NoParams
               /\ acquired = <<"transport", "session">>
               /\ Len(sessionLog) >= 2
               /\ sessionLog[1] = [op |-> "initialize", ok |-> TRUE]
               /\ sessionLog[2] = [op |-> "list_tools", ok |-> TRUE]
               /\ Len(printed) >= 1
               /\ printed[1] = "banner" )
    /\ [] ( (pc \in {"finally", "done"} /\ constructed
               /\ (printed = <<>> \/ printed[1] # "banner"))
            => (nReads = 0 /\ nQueries = 0 /\ exc # "none") )

\* the handshake failed and main has ended without reading a line
C14_Witness ==
    /\ ended = "raised"
    /\ sessionLog = <<[op |-> "initialize", ok |-> FALSE]>>
    /\ nReads = 0
    /\ nQueries = 0
    /\ printed = <<>>
    /\ releaseLog = <<"session", "transport">>


QuerySteps == {"pq_tools1", "pq_tools2", "pq_invoke"}

\* C15: the chat loop never overlaps queries: a line is read only when no call
\* of process_query is still running (each has returned or raised), at most one
\* call is in progress at any time, and the loop is inside process_query exactly
\* while that one call is in progress.
C15_NoOverlappingQueries ==
    /\ [][ nReads' # nReads => inFlight = 0 ]_vars
    /\ [][ nQueries' # nQueries => (inFlight = 0 /\ inFlight' = 1) ]_vars
    /\ [] (inFlight <= 1)
    /\ [] (inFlight = 1 <=> pc \in QuerySteps)

\* a second line has been read, after the first query ran to its answer, and its
\* query is in progress
C15_Witness ==
    /\ nReads = 2
    /\ nQueries = 2
    /\ inFlight = 1
    /\ pc = "pq_tools1"
    /\ printed = <<"banner", "answer">>


ListToolsOk == [op |-> "list_tools", ok |-> TRUE]

\* C16: the tool registry is rebuilt on every query: each tool list of
\* process_query is what the server answers to a list_tools request of that very
\* query, whatever it answered at connect time or in an earlier query; no list
\* is kept from one query to the next, and every agent run follows the two
\* requests of its own query.
C16_RegistryRebuilt ==
    /\ [][ (pc = "pq_tools1" /\ pc' = "pq_tools2")
           => /\ sessionLog' = Append(sessionLog, ListToolsOk)
              /\ promptTools' = catalog' ]_vars
    /\ [][ (pc = "pq_tools2" /\ pc' = "pq_invoke")
           => /\ sessionLog' = Append(sessionLog, ListToolsOk)
              /\ tools' = catalog' ]_vars
    /\ [] (pc \in {"chat_read", "pq_tools1"}
            => (promptTools = NoTools /\ tools = NoTools))
    /\ [] (pc = "pq_invoke"
            => /\ tools = catalog
               /\ Len(sessionLog) >= 4
               /\ sessionLog[Len(sessionLog)] = ListToolsOk
               /\ sessionLog[Len(sessionLog) - 1] = ListToolsOk)

\* the second query binds the two tools of a catalog that had one tool at connect
\* time, after a first query that ran to its answer
C16_Witness ==
    /\ pc = "pq_invoke"
    /\ nQueries = 2
    /\ printed = <<"banner", "answer">>
    /\ tools = <<"echo", "add">>
    /\ tools # InitialCatalog
    /\ Len(sessionLog) = 7


\* C17: within one process_query the tools of the prompt's summary are the tools
\* bound to the agent and executor, even if the catalog changes during the
\* query. The code fetches the catalog twice (lines 82 and 90), so this fails.
C17_OneSnapshot ==
    pc = "pq_invoke" => promptTools = tools


\* C18: chat_loop returns normally only by reading the quit sentinel. Every
\* Exception raised in an iteration, by reading the line or by the query, is
\* caught: an error report is printed and the loop is back at reading, main
\* still running, so a stream that only ever fails to read never ends the loop.
\* An interruption that is no Exception leaves the loop, and by raising. When main
\* has returned normally, the last line read was the sentinel.
C18_LoopLeavesByQuitOrRaise ==
    /\ [][ (pc \in ChatSteps /\ pc' \notin ChatSteps)
           => /\ pc' = "finally"
              /\ \/ /\ pc = "chat_read"
                    /\ IsSentinel(line')
                    /\ raised' = "none"
                    /\ exc' = "none"
                 \/ /\ raised' = "BaseException"
                    /\ exc' = "BaseException" ]_vars
    /\ [][ (pc \in ChatSteps /\ raised' = "Exception")
           => /\ pc' = "chat_read"
              /\ printed' = Append(printed, "error")
              /\ exc' = "none"
              /\ ended' = "running" ]_vars
    /\ [][ (pc \in ChatSteps /\ raised' = "BaseException")
           => /\ pc' = "finally"
              /\ exc' = "BaseException"
              /\ printed' = printed ]_vars
    /\ [] ( (constructed /\ ended = "returned") => IsSentinel(line) )
    /\ [] ( (exc = "BaseException" /\ ended # "running") => ended = "raised" )

\* every read of the input failed with an Exception, as at end of input: each
\* was reported, no query ran, and the loop is still at reading
C18_Witness ==
    /\ pc = "chat_read"
    /\ nReads = MaxLines
    /\ nQueries = 0
    /\ Len(printed) = MaxLines + 1
    /\ \A i \in 2..Len(printed) : printed[i] = "error"
    /\ ended = "running"
    /\ exc = "none"

-----------------------------------------------------------------------------
(* Further claims on helpers.py: the two validators on one model id *)

InitFamilies ==
    /\ pc = "helper"
    /\ argv = <<Prog>>
    /\ MainIdle
    /\ h_op = "validate_both"
    /\ h_model_id \in ModelIds
    /\ h_params = <<>>
    /\ h_ids = <<>>
    /\ h_i = 0
    /\ h_requests = <<>>
    /\ h_inaccessible = <<>>
    /\ h_result = [kind |-> "none"]

\* a call validate_inference_parameters(model_id, {}): the family of the branch
\* its chain takes and what it returns or raises
FamiliesParams ==
    /\ h_op = "validate_both"
    /\ h_result.kind = "none"
    /\ h_result' = [kind |-> "params",
                    param_family |-> ParamFamily(h_model_id),
                    params |-> validate_inference_parameters(h_model_id, h_params).kind]
    /\ UNCHANGED <<mainVars, h_op, h_model_id, h_params, h_ids, h_i, h_requests,
                   h_inaccessible>>

\* a call validate_model_access(bedrock_runtime, model_id) for the same id: the
\* family of the request body its chain builds, the request if one is sent, and
\* what it returns or raises
FamiliesAccess ==
    /\ h_op = "validate_both"
    /\ h_result.kind = "params"
    /\ \E answer \in ProviderAnswers :
         LET r == validate_model_access(h_model_id, answer)
         IN  /\ h_requests' = IF r.sent
                              THEN Append(h_requests,
                                          [model_id |-> h_model_id, answer |-> answer])
                              ELSE h_requests
             /\ h_result' = [kind |-> "both",
                             param_family |-> h_result.param_family,
                             params |-> h_result.params,
                             request_family |-> RequestFamily(h_model_id),
                             access |-> r.outcome]
    /\ UNCHANGED <<mainVars, h_op, h_model_id, h_params, h_ids, h_i, h_inaccessible>>

NextFamilies ==
    \/ FamiliesParams
    \/ FamiliesAccess

SpecFamilies == InitFamilies /\ [][NextFamilies]_vars

\* C19: every model id that validate_inference_parameters classifies into a
\* family is classified into the same family by validate_model_access, which
\* sends a request for it and does not raise the unsupported-model error. The
\* access validator has no ai21 branch and tests mixtral before claude, so this
\* fails.
C19_FamiliesAgree ==
    (h_result.kind = "both" /\ h_result.param_family # "none")
    => /\ h_result.request_family = h_result.param_family
       /\ h_result.access # "ValueError"
       /\ Len(h_requests) = 1

====
